---- MODULE Spec2Model ----
(***************************************************************************)
(* Model of linearlight/current_calibration/run.mjs: a command-line tool   *)
(* that calibrates the four channel current limits of an LED fixture over  *)
(* HTTP (binary search against the hardware limit signal, median of         *)
(* several runs), persists them with node-persist, and later scales         *)
(* requested brightness fractions by the stored limits.                     *)
(*                                                                         *)
(* The script is a single JavaScript flow of awaits.  The model keeps a     *)
(* program counter pc and a stack of continuations; each action is the      *)
(* code that runs between two suspension points (an HTTP response, the      *)
(* 5 ms timer) or between two calls.                                        *)
(***************************************************************************)
EXTENDS Integers, Sequences, FiniteSets, TLC

\* ------------------------------------------------------------------------
\* Bounds of the model (not program constants)
\* ------------------------------------------------------------------------

\* largest n of a direct calib(n, log) call in SpecCalib
MaxRuns == 3

\* ------------------------------------------------------------------------
\* Program constants
\* ------------------------------------------------------------------------

\* findLimit(c, 0, 255): the search range of getLimits
SearchLo == 0
SearchHi == 255
\* setLevel(255) / setLevel(0) around the runs of calib
FullLevel == 255
OffLevel == 0
\* level || 255 in initLevels
DefaultLevel == 255
\* calib(100, true) of `long`, calib(5, true) of `calib` and `colour`
LongRuns == 100
CalibRuns == 5
\* setChannels([255, 255, 255, 255]) of `white`, setChannels([0, 0, 0, 0]) of `off`
WhiteValue == 255
OffValue == 0

Channels == 0 .. 3

limitsKey == "LIMITS"
levelKey == "LEVEL"

\* const channelKey = ['pin17', 'pin16', 'pin5', 'pin19'];
channelKey == <<"pin17", "pin16", "pin5", "pin19">>
Pins == {channelKey[k] : k \in 1 .. 4}

\* ------------------------------------------------------------------------
\* JavaScript values and their text forms
\* ------------------------------------------------------------------------

\* A JavaScript value as the script sees one: undefined, a number, an array
JsUndefined == [t |-> "undefined", v |-> <<>>]
JsNumber(x) == [t |-> "number", v |-> <<x>>]
JsArray(a) == [t |-> "array", v |-> a]

\* !x is false for every array (also an empty one) and for a nonzero number
Truthy(x) ==
  \/ x.t = "array"
  \/ x.t = "number" /\ x.v[1] # 0

\* String(n) of a non-negative integer: its decimal digits, most significant first
RECURSIVE Digits(_)
Digits(x) ==
  IF x < 10 THEN <<x>> ELSE Append(Digits(x \div 10), x % 10)

\* the number a digit string denotes
RECURSIVE Number(_)
Number(d) ==
  IF Len(d) = 1 THEN d[1]
  ELSE 10 * Number(SubSeq(d, 1, Len(d) - 1)) + d[Len(d)]

\* a < b for two strings, by code units (digits order as their characters do)
RECURSIVE StrLess(_, _)
StrLess(a, b) ==
  IF b = <<>> THEN FALSE
  ELSE IF a = <<>> THEN TRUE
  ELSE IF Head(a) # Head(b) THEN Head(a) < Head(b)
  ELSE StrLess(Tail(a), Tail(b))

\* Array.prototype.sort() without a comparator: the elements are ordered by
\* their string forms
RECURSIVE SortInsert(_, _)
SortInsert(x, s) ==
  IF s = <<>> THEN <<x>>
  ELSE IF StrLess(Digits(x), Digits(Head(s))) THEN <<x>> \o s
  ELSE <<Head(s)>> \o SortInsert(x, Tail(s))

RECURSIVE Sort(_)
Sort(a) ==
  IF a = <<>> THEN <<>> ELSE SortInsert(a[Len(a)], Sort(SubSeq(a, 1, Len(a) - 1)))

\* the same elements in ascending numeric order (what a numeric sort would give)
RECURSIVE NumInsert(_, _)
NumInsert(x, s) ==
  IF s = <<>> THEN <<x>>
  ELSE IF x < Head(s) THEN <<x>> \o s
  ELSE <<Head(s)>> \o NumInsert(x, Tail(s))

RECURSIVE NumSort(_)
NumSort(a) ==
  IF a = <<>> THEN <<>> ELSE NumInsert(a[Len(a)], NumSort(SubSeq(a, 1, Len(a) - 1)))

\* node-persist keeps each item as JSON text: JSON.stringify on setItem ...
Stringify(x) ==
  [t |-> x.t, v |-> [k \in DOMAIN x.v |-> Digits(x.v[k])]]

\* ... and JSON.parse on getItem
Parse(s) ==
  [t |-> s.t, v |-> [k \in DOMAIN s.v |-> Number(s.v[k])]]

\* a key with no file
NoItem == [t |-> "undefined", v |-> <<>>]

\* ------------------------------------------------------------------------
\* Pure functions of the script
\* ------------------------------------------------------------------------

channelValuesKeep(idx, value) ==
  [k \in 1 .. 4 |-> value]

\* function channelValues(idx, value)
channelValues(idx, value) ==
  [k \in 1 .. 4 |-> IF k = idx + 1 THEN value ELSE 0]

\* const mid = Math.floor((lo+hi)/2);
MidQuarter(l, h) ==
  (3 * l + h) \div 4

MidCeil(l, h) ==
  (l + h + 1) \div 2

Mid(l, h) ==
  (l + h) \div 2

\* function median(a): a.sort()[Math.floor(a.length/2)]
median(a) ==
  Sort(a)[(Len(a) \div 2) + 1]

okAlways(r) ==
  TRUE

\* r.ok of errorHandler(r): the response carries a success status
errorHandlerOk(r) ==
  r = "ok"

\* j[channelKey[idx]] !== 0
limitSignal(j, idx) ==
  j[channelKey[idx + 1]] # 0

scaleRound(f, x) ==
  (2 * f[1] * x + f[2]) \div (2 * f[2])

scaleUp(f, x) ==
  ((f[1] * x) \div f[2]) + 1

\* x => Math.floor(k*x) for the fraction k = f[1]/f[2]
scale(f, x) ==
  (f[1] * x) \div f[2]

\* ------------------------------------------------------------------------
\* State
\* ------------------------------------------------------------------------

VARIABLES
  pc,        \* the statement the script is at
  stack,     \* continuations of the pending awaits, innermost first
  argv,      \* [cmd, len]: process.argv[2] and process.argv.length
  err,       \* how the last response ended: "none" before the first, "ok", or
             \* the failure ("status": not r.ok, "transport": fetch rejected)
  n,         \* calib: the parameter n
  i,         \* calib: the loop counter
  samples,   \* calib: <<rs, gs, bs, ws>>
  acc,       \* getLimits: the array built so far
  idx,       \* findLimit: idx
  lo,        \* findLimit: lo
  hi,        \* findLimit: hi
  mid,       \* findLimit: mid
  limit,     \* findLimit: limit, the value getLimitSignal resolved to
  found,     \* the value the last findLimit resolved to
  limits,    \* calib: limits, the array calib resolved to (<<>> before)
  lim,       \* colour: lim
  fracs,     \* colour: <<k>> or <<r, g, b, w>>, the fractions parseFloat gave
  level,     \* initLevels: level
  store,     \* node-persist: the JSON text kept under each key
  tripSets,  \* fixture: per channel, the trip points the hardware may show
  trip,      \* fixture: per channel, the largest code that does not trip now
  monotone,  \* fixture: whether the limit signal follows the trip points
  devLevel,  \* fixture: the level this process last set (-1: none yet)
  devChans,  \* fixture: the channel codes this process last set (<<>>: none yet)
  req,       \* the last HTTP request issued
  inflight,  \* number of HTTP requests awaiting their response
  settling,  \* a delay(5) timer is running
  first,     \* history: the first request of this process
  nReq,      \* history: requests issued by this process
  nLevel,    \* history: PUT /level requests issued by this process
  nSearch,   \* history: requests issued by findLimit in this process
  nInit,     \* history: calls of initLevels in this process
  lastLevel, \* history: the last PUT /level request of this process
  atStart,   \* history: the store when this process started
  trips,     \* history: the trip points the fixture showed in the runs of calib
  span,      \* history: <<lo, hi>> of the findLimit call made from outside
  prevCalib  \* history: what the previous process, a completed `calib`, logged

calibLocals == <<n, i, samples, acc, limits>>
findLocals == <<idx, lo, hi, mid, found>>
cmdLocals == <<lim, level>>
locals == <<calibLocals, findLocals, limit, cmdLocals>>
fixture == <<tripSets, monotone, devLevel, devChans>>
hist == <<first, nReq, nLevel, nSearch, lastLevel>>
net == <<req, inflight, hist>>
vars == <<pc, stack, argv, err, locals, fracs, store, fixture, trip, settling, net,
          nInit, atStart, trips, span, prevCalib>>

NoReq == [url |-> "", body |-> <<>>, ch |-> -1, from |-> ""]

Outcomes == {"ok", "status", "transport"}

\* the trip points of the fixtures `long`, `calib`, ... are run against
Env == {<<100, 150, 200, 50>>, <<228, 214, 185, 184>>}

\* per channel, the trip points a noisy fixture shows from run to run
NoisySets == <<{9, 10, 100}, {150, 151}, {200}, {50}>>

\* the LIMITS files a process may find: none, the number 0, a LimitSet, an
\* array that is no LimitSet
StoredLimits ==
  { NoItem,
    Stringify(JsNumber(0)),
    Stringify(JsArray(<<192, 179, 157, 155>>)),
    Stringify(JsArray(<<300, 214, 185, 184>>)) }

\* the LEVEL files a process may find: none, 0, a dimmed level
StoredLevels ==
  { NoItem, Stringify(JsNumber(0)), Stringify(JsNumber(128)) }

\* the fractions given on the command line, as <<numerator, denominator>>
Fractions == {<<0, 1>>, <<1, 4>>, <<1, 2>>, <<1, 1>>, <<5, 4>>}

Commands == {"long", "calib", "colour", "white", "off", "help"}

TripVectors(ts) ==
  {<<a, b, c, d>> : a \in ts[1], b \in ts[2], c \in ts[3], d \in ts[4]}

\* the code the fixture drives on channel k (array position k)
Drive(k) ==
  IF k \in DOMAIN devChans THEN devChans[k] ELSE 0

\* The bodies GET /limit may answer with.  What the fixture drives when a
\* process starts is whatever was there before, unknown to the process, and
\* so is the signal until the process has set the channels.
LimitBodies ==
  IF monotone /\ devChans # <<>>
  THEN {[p \in Pins |->
          LET k == CHOOSE q \in 1 .. 4 : channelKey[q] = p
          IN  IF Drive(k) > trip[k] THEN 1 ELSE 0]}
  ELSE [Pins -> {0, 1}]

\* ------------------------------------------------------------------------
\* Initial states
\* ------------------------------------------------------------------------

InitLocals ==
  /\ n = 0 /\ i = 0
  /\ samples = <<<<>>, <<>>, <<>>, <<>>>>
  /\ acc = <<>>
  /\ idx = 0 /\ lo = 0 /\ hi = 0 /\ mid = 0
  /\ limit = FALSE
  /\ found = 0
  /\ limits = <<>>
  /\ lim = JsUndefined
  /\ level = JsUndefined

InitCommon ==
  /\ err = "none"
  /\ devLevel = -1
  /\ devChans = <<>>
  /\ req = NoReq
  /\ inflight = 0
  /\ settling = FALSE
  /\ first = NoReq
  /\ nReq = 0 /\ nLevel = 0 /\ nSearch = 0 /\ nInit = 0
  /\ lastLevel = NoReq
  /\ atStart = store
  /\ trips = {}
  /\ span = <<lo, hi>>
  /\ fracs = <<>>
  /\ prevCalib = JsUndefined

\* a process of the script about to start
Init ==
  /\ pc = "start"
  /\ stack = <<>>
  /\ argv = [cmd |-> "none", len |-> 0]
  /\ InitLocals
  /\ store \in [LIMITS : StoredLimits, LEVEL : StoredLevels]
  /\ \E e \in Env :
       /\ tripSets = [k \in 1 .. 4 |-> {e[k]}]
       /\ trip = e
  /\ monotone = TRUE
  /\ InitCommon

\* ------------------------------------------------------------------------
\* DeviceClient: setLevel, setChannels, getLimitSignal
\* ------------------------------------------------------------------------

\* setLevel(level): fetch(`${api}/level`, {method: 'PUT', body: `L${level}`})
setLevel(lv, from) ==
  [url |-> "/level", body |-> <<lv>>, ch |-> -1, from |-> from]

\* setChannels(arr): fetch(`${api}/ctrl`, {method: 'PUT', body: `W${arr.join(',')}`})
setChannels(arr, from) ==
  [url |-> "/ctrl", body |-> arr, ch |-> -1, from |-> from]

\* getLimitSignal(idx): fetch(`${api}/limit`)
getLimitSignal(c, from) ==
  [url |-> "/limit", body |-> <<>>, ch |-> c, from |-> from]

\* fetch(...) is called and awaited: the request r leaves, the caller is
\* suspended with continuation cont on top of the continuations in base
Fetch(r, cont, base) ==
  /\ req' = r
  /\ inflight' = inflight + 1
  /\ pc' = "await"
  /\ stack' = <<cont>> \o base
  /\ first' = IF nReq = 0 THEN r ELSE first
  /\ nReq' = nReq + 1
  /\ nLevel' = IF r.url = "/level" THEN nLevel + 1 ELSE nLevel
  /\ nSearch' = IF r.from = "findLimit" THEN nSearch + 1 ELSE nSearch
  /\ lastLevel' = IF r.url = "/level" THEN r ELSE lastLevel

\* an async function is called: control moves to target, with continuation cont
Call(target, cont) ==
  /\ pc' = target
  /\ stack' = <<cont>> \o stack

\* an async function resolves: its caller continues
Return ==
  /\ pc' = Head(stack)
  /\ stack' = Tail(stack)

RespondUnsettled ==
  /\ pc = "await"
  /\ \E r \in Outcomes :
       IF r # "transport" /\ errorHandlerOk(r)
       THEN /\ inflight' = inflight - 1
            /\ err' = r
            /\ IF req.url = "/limit"
               THEN /\ \E j \in LimitBodies : limit' = limitSignal(j, req.ch)
                    /\ Return
                    /\ UNCHANGED <<settling, devLevel, devChans>>
               ELSE /\ settling' = TRUE
                    /\ Return
                    /\ devLevel' = IF r = "ok" /\ req.url = "/level"
                                   THEN req.body[1] ELSE devLevel
                    /\ devChans' = IF r = "ok" /\ req.url = "/ctrl"
                                   THEN req.body ELSE devChans
                    /\ UNCHANGED limit
       ELSE /\ inflight' = inflight - 1
            /\ err' = r
            /\ pc' = "aborted"
            /\ stack' = <<>>
            /\ UNCHANGED <<settling, devLevel, devChans, limit>>
  /\ UNCHANGED <<argv, calibLocals, findLocals, cmdLocals, store, tripSets, monotone,
                 trip, req, hist, nInit, atStart, trips, span, fracs, prevCalib>>

\* The response of the pending request arrives (or the request fails to be
\* sent): .then(errorHandler), and then delay(5) after a PUT, or
\* resp.json() and the comparison with 0 after GET /limit.  A rejection is
\* caught nowhere and ends the process.
Respond ==
  /\ pc = "await"
  /\ \E r \in Outcomes :
       IF r # "transport" /\ errorHandlerOk(r)
       THEN /\ inflight' = inflight - 1
            /\ err' = r
            /\ IF req.url = "/limit"
               THEN /\ \E j \in LimitBodies : limit' = limitSignal(j, req.ch)
                    /\ Return
                    /\ UNCHANGED <<settling, devLevel, devChans>>
               ELSE /\ settling' = TRUE
                    /\ pc' = "delay"
                    /\ devLevel' = IF r = "ok" /\ req.url = "/level"
                                   THEN req.body[1] ELSE devLevel
                    /\ devChans' = IF r = "ok" /\ req.url = "/ctrl"
                                   THEN req.body ELSE devChans
                    /\ UNCHANGED <<stack, limit>>
       ELSE /\ inflight' = inflight - 1
            /\ err' = r
            /\ pc' = "aborted"
            /\ stack' = <<>>
            /\ UNCHANGED <<settling, devLevel, devChans, limit>>
  /\ UNCHANGED <<argv, calibLocals, findLocals, cmdLocals, store, tripSets, monotone,
                 trip, req, hist, nInit, atStart, trips, span, fracs, prevCalib>>

\* delay(5): the timer fires and the awaited write resolves
Delay ==
  /\ pc = "delay"
  /\ settling' = FALSE
  /\ Return
  /\ UNCHANGED <<argv, err, locals, store, fixture, trip, net, nInit, atStart,
                 trips, span, fracs, prevCalib>>

\* ------------------------------------------------------------------------
\* CalibrationEngine: findLimit, getLimits, calib
\* ------------------------------------------------------------------------

\* findLimit(idx, lo, hi) up to its first await
FindLimit ==
  /\ pc = "findLimit"
  /\ mid' = Mid(lo, hi)
  /\ IF mid' = lo
     THEN /\ found' = lo
          /\ Return
          /\ UNCHANGED net
     ELSE /\ Fetch(setChannels(channelValues(idx, mid'), "findLimit"),
                   "findLimit.read", stack)
          /\ found' = found
  /\ UNCHANGED <<argv, err, calibLocals, idx, lo, hi, limit, cmdLocals, store, fixture,
                 trip, settling, nInit, atStart, trips, span, fracs, prevCalib>>

FindLimitReadFirst ==
  /\ pc = "findLimit.read"
  /\ Fetch(getLimitSignal(0, "findLimit"), "findLimit.rec", stack)
  /\ UNCHANGED <<argv, err, locals, store, fixture, trip, settling, nInit, atStart,
                 trips, span, fracs, prevCalib>>

\* const limit = await getLimitSignal(idx);
FindLimitRead ==
  /\ pc = "findLimit.read"
  /\ Fetch(getLimitSignal(idx, "findLimit"), "findLimit.rec", stack)
  /\ UNCHANGED <<argv, err, locals, store, fixture, trip, settling, nInit, atStart,
                 trips, span, fracs, prevCalib>>

FindLimitRecurseRetry ==
  /\ pc = "findLimit.rec"
  /\ IF limit
     THEN hi' = hi /\ lo' = lo
     ELSE lo' = mid /\ hi' = hi
  /\ pc' = "findLimit"
  /\ UNCHANGED <<stack, argv, err, calibLocals, idx, mid, found, limit, cmdLocals,
                 store, fixture, trip, settling, net, nInit, atStart, trips, span, fracs, prevCalib>>

FindLimitRecurseSwapped ==
  /\ pc = "findLimit.rec"
  /\ IF limit
     THEN lo' = mid /\ hi' = hi
     ELSE hi' = mid /\ lo' = lo
  /\ pc' = "findLimit"
  /\ UNCHANGED <<stack, argv, err, calibLocals, idx, mid, found, limit, cmdLocals,
                 store, fixture, trip, settling, net, nInit, atStart, trips, span, fracs, prevCalib>>

\* return limit ? findLimit(idx, lo, mid) : findLimit(idx, mid, hi);
FindLimitRecurse ==
  /\ pc = "findLimit.rec"
  /\ IF limit
     THEN hi' = mid /\ lo' = lo
     ELSE lo' = mid /\ hi' = hi
  /\ pc' = "findLimit"
  /\ UNCHANGED <<stack, argv, err, calibLocals, idx, mid, found, limit, cmdLocals,
                 store, fixture, trip, settling, net, nInit, atStart, trips, span, fracs, prevCalib>>

\* getLimits(): await findLimit(0, 0, 255)
GetLimits ==
  /\ pc = "getLimits"
  /\ span' = <<SearchLo, SearchHi>>
  /\ acc' = <<>>
  /\ idx' = 0 /\ lo' = SearchLo /\ hi' = SearchHi
  /\ Call("findLimit", "getLimits.next")
  /\ UNCHANGED <<argv, err, n, i, samples, limits, mid, found, limit, cmdLocals, store,
                 fixture, trip, settling, net, nInit, atStart, trips, fracs, prevCalib>>

GetLimitsNextReversed ==
  /\ pc = "getLimits.next"
  /\ span' = <<SearchLo, SearchHi>>
  /\ acc' = <<found>> \o acc
  /\ IF Len(acc') < 4
     THEN /\ idx' = Len(acc') /\ lo' = SearchLo /\ hi' = SearchHi
          /\ Call("findLimit", "getLimits.next")
     ELSE /\ Return
          /\ UNCHANGED <<idx, lo, hi>>
  /\ UNCHANGED <<argv, err, n, i, samples, limits, mid, found, limit, cmdLocals, store,
                 fixture, trip, settling, net, nInit, atStart, trips, fracs, prevCalib>>

\* getLimits(): a findLimit resolved; the next one is called, or the array returned
GetLimitsNext ==
  /\ pc = "getLimits.next"
  /\ span' = <<SearchLo, SearchHi>>
  /\ acc' = Append(acc, found)
  /\ IF Len(acc') < 4
     THEN /\ idx' = Len(acc') /\ lo' = SearchLo /\ hi' = SearchHi
          /\ Call("findLimit", "getLimits.next")
     ELSE /\ Return
          /\ UNCHANGED <<idx, lo, hi>>
  /\ UNCHANGED <<argv, err, n, i, samples, limits, mid, found, limit, cmdLocals, store,
                 fixture, trip, settling, net, nInit, atStart, trips, fracs, prevCalib>>

CalibDim ==
  /\ pc = "calib"
  /\ samples' = <<<<>>, <<>>, <<>>, <<>>>>
  /\ i' = 0
  /\ Fetch(setLevel(OffLevel, "calib"), "calib.loop", stack)
  /\ UNCHANGED <<argv, err, n, acc, limits, findLocals, limit, cmdLocals, store,
                 fixture, trip, settling, nInit, atStart, trips, span, fracs, prevCalib>>

\* calib(n, log): the arrays are created and setLevel(255) awaited
Calib ==
  /\ pc = "calib"
  /\ samples' = <<<<>>, <<>>, <<>>, <<>>>>
  /\ i' = 0
  /\ Fetch(setLevel(FullLevel, "calib"), "calib.loop", stack)
  /\ UNCHANGED <<argv, err, n, acc, limits, findLocals, limit, cmdLocals, store,
                 fixture, trip, settling, nInit, atStart, trips, span, fracs, prevCalib>>

\* for(let i = 0; i < n; ++i): the next run, or setLevel(0) after the last.
\* The fixture shows the trip points of this run from here on.
CalibLoop ==
  /\ pc = "calib.loop"
  /\ IF i < n
     THEN /\ Call("getLimits", "calib.push")
          /\ trip' \in TripVectors(tripSets)
          /\ trips' = trips \cup {trip'}
          /\ UNCHANGED net
     ELSE /\ Fetch(setLevel(OffLevel, "calib"), "calib.end", stack)
          /\ UNCHANGED <<trip, trips>>
  /\ UNCHANGED <<argv, err, locals, store, fixture, settling, nInit, atStart,
                 span, fracs, prevCalib>>

\* const [r, g, b, w] = await getLimits(); rs.push(r); ... ws.push(w);
CalibPush ==
  /\ pc = "calib.push"
  /\ samples' = [k \in 1 .. 4 |-> Append(samples[k], acc[k])]
  /\ i' = i + 1
  /\ pc' = "calib.loop"
  /\ UNCHANGED <<stack, argv, err, n, acc, limits, findLocals, limit, cmdLocals, store,
                 fixture, trip, settling, net, nInit, atStart, trips, span, fracs, prevCalib>>

CalibEndNoStore ==
  /\ pc = "calib.end"
  /\ limits' = [k \in 1 .. 4 |-> median(samples[k])]
  /\ Return
  /\ UNCHANGED <<argv, err, n, i, samples, acc, findLocals, limit, cmdLocals, store,
                 fixture, trip, settling, net, nInit, atStart, trips, span, fracs, prevCalib>>

\* const limits = [median(rs), ...]; await storage.setItem(limitsKey, limits);
\* return limits;
CalibEnd ==
  /\ pc = "calib.end"
  /\ limits' = [k \in 1 .. 4 |-> median(samples[k])]
  /\ store' = [store EXCEPT ![limitsKey] = Stringify(JsArray(limits'))]
  /\ Return
  /\ UNCHANGED <<argv, err, n, i, samples, acc, findLocals, limit, cmdLocals, fixture,
                 trip, settling, net, nInit, atStart, trips, span, fracs, prevCalib>>

\* ------------------------------------------------------------------------
\* initLevels and the commands
\* ------------------------------------------------------------------------

levelNullish(x) ==
  IF x = JsUndefined THEN DefaultLevel ELSE x.v[1]

\* level || 255
levelOrDefault(x) ==
  IF Truthy(x) THEN x.v[1] ELSE DefaultLevel

InitLevelsSaves ==
  /\ pc = "initLevels"
  /\ level' = Parse(store[levelKey])
  /\ nInit' = nInit + 1
  /\ store' = [store EXCEPT ![levelKey] = Stringify(JsNumber(levelOrDefault(level')))]
  /\ Fetch(setLevel(levelOrDefault(level'), "initLevels"), Head(stack), Tail(stack))
  /\ UNCHANGED <<argv, err, calibLocals, findLocals, limit, lim, fixture, trip,
                 settling, atStart, trips, span, fracs, prevCalib>>

\* initLevels(): const level = await storage.getItem(levelKey);
\* await setLevel(level || 255);
InitLevels ==
  /\ pc = "initLevels"
  /\ level' = Parse(store[levelKey])
  /\ nInit' = nInit + 1
  /\ Fetch(setLevel(levelOrDefault(level'), "initLevels"), Head(stack), Tail(stack))
  /\ UNCHANGED <<argv, err, calibLocals, findLocals, limit, lim, store, fixture, trip,
                 settling, atStart, trips, span, fracs, prevCalib>>

Argvs ==
  {[cmd |-> c, len |-> 3] : c \in Commands}
    \cup {[cmd |-> "colour", len |-> l] : l \in {4, 7}}

\* A process of the script starts (the first one, or the next one once the
\* last has ended): await storage.init({dir: 'settings/emilite'})
Launch ==
  /\ pc \in {"start", "exit", "aborted"}
  /\ argv' \in Argvs
  /\ pc' = "main"
  /\ stack' = <<>>
  /\ err' = "none"
  /\ n' = 0 /\ i' = 0
  /\ samples' = <<<<>>, <<>>, <<>>, <<>>>>
  /\ acc' = <<>>
  /\ idx' = 0 /\ lo' = 0 /\ hi' = 0 /\ mid' = 0
  /\ limit' = FALSE
  /\ found' = 0
  /\ limits' = <<>>
  /\ lim' = JsUndefined
  /\ level' = JsUndefined
  /\ req' = NoReq
  /\ inflight' = 0
  /\ settling' = FALSE
  /\ first' = NoReq
  /\ nReq' = 0 /\ nLevel' = 0 /\ nSearch' = 0 /\ nInit' = 0
  /\ lastLevel' = NoReq
  /\ atStart' = store
  /\ trips' = {}
  /\ span' = <<0, 0>>
  /\ fracs' = <<>>
  /\ devLevel' = -1
  /\ devChans' = <<>>
  /\ prevCalib' = IF pc = "exit" /\ argv.cmd = "calib"
                  THEN JsArray(limits) ELSE JsUndefined
  /\ UNCHANGED <<store, tripSets, monotone, trip>>

\* case 'long': await calib(100, true);
CaseLong ==
  /\ pc = "main"
  /\ argv.cmd = "long"
  /\ n' = LongRuns
  /\ Call("calib", "exit")
  /\ UNCHANGED <<argv, err, i, samples, acc, limits, findLocals, limit, cmdLocals,
                 store, fixture, trip, settling, net, nInit, atStart, trips, span, fracs, prevCalib>>

\* case 'calib': console.log(await calib(5, true));
CaseCalib ==
  /\ pc = "main"
  /\ argv.cmd = "calib"
  /\ n' = CalibRuns
  /\ Call("calib", "calib.log")
  /\ UNCHANGED <<argv, err, i, samples, acc, limits, findLocals, limit, cmdLocals,
                 store, fixture, trip, settling, net, nInit, atStart, trips, span, fracs, prevCalib>>

\* console.log(...) of the limits calib resolved to; break;
CalibLog ==
  /\ pc = "calib.log"
  /\ pc' = "exit"
  /\ UNCHANGED <<stack, argv, err, locals, store, fixture, trip, settling, net, nInit,
                 atStart, trips, span, fracs, prevCalib>>

CaseColourRecalibrates ==
  /\ pc = "main"
  /\ argv.cmd = "colour"
  /\ lim' = Parse(store[limitsKey])
  /\ n' = CalibRuns
  /\ Call("calib", "colour.fresh")
  /\ UNCHANGED <<argv, err, i, samples, acc, limits, findLocals, limit, level, store,
                 fixture, trip, settling, net, nInit, atStart, trips, span, fracs, prevCalib>>

CaseColourNoFallback ==
  /\ pc = "main"
  /\ argv.cmd = "colour"
  /\ lim' = Parse(store[limitsKey])
  /\ pc' = "colour.init"
  /\ UNCHANGED <<stack, argv, err, calibLocals, findLocals, limit, level, store,
                 fixture, trip, settling, net, nInit, atStart, trips, span, fracs, prevCalib>>

\* case 'colour': let lim = await storage.getItem(limitsKey);
\* if (!lim) { lim = await calib(5, true); }
CaseColour ==
  /\ pc = "main"
  /\ argv.cmd = "colour"
  /\ lim' = Parse(store[limitsKey])
  /\ IF ~Truthy(lim')
     THEN /\ n' = CalibRuns
          /\ Call("calib", "colour.fresh")
     ELSE /\ n' = n
          /\ pc' = "colour.init"
          /\ stack' = stack
  /\ UNCHANGED <<argv, err, i, samples, acc, limits, findLocals, limit, level, store,
                 fixture, trip, settling, net, nInit, atStart, trips, span, fracs, prevCalib>>

\* lim = await calib(5, true): the fresh limits are assigned
ColourFresh ==
  /\ pc = "colour.fresh"
  /\ lim' = JsArray(limits)
  /\ pc' = "colour.init"
  /\ UNCHANGED <<stack, argv, err, calibLocals, findLocals, limit, level, store,
                 fixture, trip, settling, net, nInit, atStart, trips, span, fracs, prevCalib>>

ColourInitSkipped ==
  /\ pc = "colour.init"
  /\ pc' = "colour.apply"
  /\ UNCHANGED <<stack, argv, err, locals, store, fixture, trip, settling, net, nInit,
                 atStart, trips, span, fracs, prevCalib>>

\* await initLevels();
ColourInit ==
  /\ pc = "colour.init"
  /\ Call("initLevels", "colour.apply")
  /\ UNCHANGED <<argv, err, locals, store, fixture, trip, settling, net, nInit,
                 atStart, trips, span, fracs, prevCalib>>

\* switch (process.argv.length): case 4, one fraction k for all channels;
\* case 7, one fraction per channel; otherwise nothing is sent.  The
\* fractions are read here, by parseFloat(process.argv[3..6]).
ColourApply ==
  /\ pc = "colour.apply"
  /\ CASE argv.len = 4 ->
            \E k \in Fractions :
              /\ fracs' = <<k>>
              /\ Fetch(setChannels([c \in DOMAIN lim.v |-> scale(k, lim.v[c])],
                                   "colour"),
                       "exit", stack)
       [] argv.len = 7 ->
            \E r \in Fractions, g \in Fractions, b \in Fractions, w \in Fractions :
              /\ fracs' = <<r, g, b, w>>
              /\ Fetch(setChannels(<<scale(r, lim.v[1]), scale(g, lim.v[2]),
                                     scale(b, lim.v[3]), scale(w, lim.v[4])>>,
                                   "colour"),
                       "exit", stack)
       [] OTHER ->
            /\ pc' = "exit"
            /\ UNCHANGED <<stack, net, fracs>>
  /\ UNCHANGED <<argv, err, locals, store, fixture, trip, settling, nInit, atStart,
                 trips, span, prevCalib>>

\* case 'white': await initLevels();
CaseWhite ==
  /\ pc = "main"
  /\ argv.cmd = "white"
  /\ Call("initLevels", "white.set")
  /\ UNCHANGED <<argv, err, locals, store, fixture, trip, settling, net, nInit,
                 atStart, trips, span, fracs, prevCalib>>

\* await setChannels([255, 255, 255, 255]);
WhiteSet ==
  /\ pc = "white.set"
  /\ Fetch(setChannels([c \in 1 .. 4 |-> WhiteValue], "white"), "exit", stack)
  /\ UNCHANGED <<argv, err, locals, store, fixture, trip, settling, nInit, atStart,
                 trips, span, fracs, prevCalib>>

CaseOffInit ==
  /\ pc = "main"
  /\ argv.cmd = "off"
  /\ Call("initLevels", "white.set")
  /\ UNCHANGED <<argv, err, locals, store, fixture, trip, settling, net, nInit,
                 atStart, trips, span, fracs, prevCalib>>

\* case 'off': await setChannels([0, 0, 0, 0]);
CaseOff ==
  /\ pc = "main"
  /\ argv.cmd = "off"
  /\ Fetch(setChannels([c \in 1 .. 4 |-> OffValue], "off"), "exit", stack)
  /\ UNCHANGED <<argv, err, locals, store, fixture, trip, settling, nInit, atStart,
                 trips, span, fracs, prevCalib>>

\* default: console.info(`Supported commands: ...`)
CaseDefault ==
  /\ pc = "main"
  /\ argv.cmd \notin {"long", "calib", "colour", "white", "off"}
  /\ pc' = "exit"
  /\ UNCHANGED <<stack, argv, err, locals, store, fixture, trip, settling, net, nInit,
                 atStart, trips, span, fracs, prevCalib>>

\* ------------------------------------------------------------------------
\* Specifications
\* ------------------------------------------------------------------------

Next ==
  \/ Launch
  \/ CaseLong \/ CaseCalib \/ CaseColour \/ CaseWhite \/ CaseOff \/ CaseDefault
  \/ CalibLog \/ ColourFresh \/ ColourInit \/ ColourApply \/ WhiteSet
  \/ InitLevels
  \/ Calib \/ CalibLoop \/ GetLimits \/ GetLimitsNext \/ CalibPush \/ CalibEnd
  \/ FindLimit \/ FindLimitRead \/ FindLimitRecurse
  \/ Respond \/ Delay

\* the script, run any number of times against one fixture and one store
Spec == Init /\ [][Next]_vars

\* one call findLimit(idx, 0, 255) against a fixture with trip point t
InitFind ==
  /\ pc = "findLimit"
  /\ stack = <<"done">>
  /\ argv = [cmd |-> "none", len |-> 0]
  /\ n = 0 /\ i = 0
  /\ samples = <<<<>>, <<>>, <<>>, <<>>>>
  /\ acc = <<>>
  /\ idx \in Channels
  /\ lo = SearchLo /\ hi = SearchHi
  /\ mid = 0
  /\ limit = FALSE
  /\ found = 0
  /\ limits = <<>>
  /\ lim = JsUndefined
  /\ level = JsUndefined
  /\ store = [LIMITS |-> NoItem, LEVEL |-> NoItem]
  /\ \E t \in -1 .. SearchHi :
       /\ tripSets = [k \in 1 .. 4 |-> {t}]
       /\ trip = [k \in 1 .. 4 |-> t]
  /\ monotone = TRUE
  /\ InitCommon

NextFind == FindLimit \/ FindLimitRead \/ FindLimitRecurse \/ Respond \/ Delay

SpecFind == InitFind /\ [][NextFind]_vars

\* the ends lo and hi that findLimit is called with in SpecFindAny
FindEnds == {0, 1, 2, 3, 64, 127, 128, 200, 254, 255}

\* one call findLimit(idx, lo, hi), 0 <= lo <= hi <= 255, against a limit
\* signal that may answer anything at any read
InitFindAny ==
  /\ pc = "findLimit"
  /\ stack = <<"done">>
  /\ argv = [cmd |-> "none", len |-> 0]
  /\ n = 0 /\ i = 0
  /\ samples = <<<<>>, <<>>, <<>>, <<>>>>
  /\ acc = <<>>
  /\ idx \in Channels
  /\ lo \in FindEnds
  /\ hi \in {h \in FindEnds : lo <= h}
  /\ mid = 0
  /\ limit = FALSE
  /\ found = 0
  /\ limits = <<>>
  /\ lim = JsUndefined
  /\ level = JsUndefined
  /\ store = [LIMITS |-> NoItem, LEVEL |-> NoItem]
  /\ tripSets = [k \in 1 .. 4 |-> {0}]
  /\ trip = <<0, 0, 0, 0>>
  /\ monotone = FALSE
  /\ InitCommon

\* every device call returns: the pending response arrives, the timer fires,
\* and the code after an await runs
SpecFindAny == InitFindAny /\ [][NextFind]_vars /\ WF_vars(NextFind)

\* one call calib(n, log), 1 <= n <= MaxRuns, against a fixture whose trip
\* points vary from run to run
InitCalib ==
  /\ pc = "calib"
  /\ stack = <<"done">>
  /\ argv = [cmd |-> "none", len |-> 0]
  /\ n \in 1 .. MaxRuns
  /\ i = 0
  /\ samples = <<<<>>, <<>>, <<>>, <<>>>>
  /\ acc = <<>>
  /\ idx = 0 /\ lo = 0 /\ hi = 0 /\ mid = 0
  /\ limit = FALSE
  /\ found = 0
  /\ limits = <<>>
  /\ lim = JsUndefined
  /\ level = JsUndefined
  /\ store \in [LIMITS : StoredLimits, LEVEL : {NoItem}]
  /\ tripSets = NoisySets
  /\ trip \in TripVectors(NoisySets)
  /\ monotone = TRUE
  /\ InitCommon

NextCalib ==
  \/ Calib \/ CalibLoop \/ GetLimits \/ GetLimitsNext \/ CalibPush \/ CalibEnd
  \/ FindLimit \/ FindLimitRead \/ FindLimitRecurse
  \/ Respond \/ Delay

SpecCalib == InitCalib /\ [][NextCalib]_vars

\* ------------------------------------------------------------------------
\* Properties
\* ------------------------------------------------------------------------

\* x is a LimitSet: an array of four integers in 0..255
IsLimitSet(x) ==
  /\ x.t = "array"
  /\ Len(x.v) = 4
  /\ \A k \in 1 .. 4 : x.v[k] \in 0 .. 255

\* C1: against a monotonic limit signal with trip point v (false up to v,
\* true from v+1 on, v and v+1 both in 0..255), findLimit(c, 0, 255) resolves
\* to exactly v, on every channel c.
C1_FindLimitExact ==
  (pc = "done" /\ trip[idx + 1] \in 0 .. SearchHi - 1) => found = trip[idx + 1]

\* a search of channel 2 that resolved to the largest trip point, 254
C1_Witness ==
  /\ pc = "done"
  /\ idx = 2
  /\ trip[3] = 254
  /\ found = 254
  /\ nReq = 16

\* C2 (as claimed): the limit calib reports for a channel is the element at
\* index floor(numRuns/2) of that channel's samples in ascending numeric order.
C2_MedianIsNumeric ==
  pc = "done" =>
    \A k \in 1 .. 4 : limits[k] = NumSort(samples[k])[(n \div 2) + 1]

\* C3: with trip points (T0,T1,T2,T3) that are the same in every run, a
\* calib(n) in which no device call fails resolves to exactly (T0,T1,T2,T3).
C3_FixedThresholds ==
  \A T \in TripVectors(tripSets) :
    (pc = "done" /\ trips = {T}) => limits = T

\* calib(1) against trip points (100,150,200,50) resolved to (100,150,200,50)
C3_Witness ==
  /\ pc = "done"
  /\ n = 1
  /\ trips = {<<100, 150, 200, 50>>}
  /\ limits = <<100, 150, 200, 50>>

\* C4: in a calib in which no device call fails, the first request is
\* setLevel(255) and the last is setLevel(0); every setChannels and every
\* getLimitSignal is issued after the first and before the second, and there
\* is no other setLevel.
C4_LevelBrackets ==
  /\ nReq >= 1 => first = setLevel(FullLevel, "calib")
  /\ req.url \in {"/ctrl", "/limit"} => nLevel = 1
  /\ pc = "done" => /\ req = setLevel(OffLevel, "calib")
                    /\ nLevel = 2
                    /\ nReq = 2 + nSearch

\* a calib(2) that completed: 2 setLevel requests around those of 8 searches
C4_Witness ==
  /\ pc = "done"
  /\ n = 2
  /\ nLevel = 2
  /\ nSearch > 100
  /\ devLevel = 0

\* C5: every setChannels that findLimit issues for channel idx carries 0 on
\* the three other channels (and mid on channel idx), in every step of every run.
C5_ChannelIsolation ==
  (req.url = "/ctrl" /\ req.from = "findLimit") =>
    /\ Len(req.body) = 4
    /\ req.body[idx + 1] = mid
    /\ \A k \in 1 .. 4 : k # idx + 1 => req.body[k] = 0

\* in the second run, channel 2 is driven while 0, 1 and 3 are held at 0
C5_Witness ==
  /\ req.url = "/ctrl"
  /\ req.from = "findLimit"
  /\ i = 1
  /\ idx = 2
  /\ req.body = <<0, 0, 191, 0>>
  /\ devChans = req.body

\* C6: when a device call of calib fails (a non-success status or a transport
\* error) the calibration is over: nothing further happens (no request, no
\* retry), calib has resolved to no LimitSet, and the store is as it was.
C6_FailureAborts ==
  err \in {"status", "transport"} =>
    /\ pc = "aborted"
    /\ ~ ENABLED NextCalib
    /\ inflight = 0
    /\ limits = <<>>
    /\ store = atStart

\* a getLimitSignal of the second run answered with a non-success status
C6_Witness ==
  /\ pc = "aborted"
  /\ err = "status"
  /\ req.url = "/limit"
  /\ i = 1
  /\ Len(samples[1]) = 1
  /\ atStart.LIMITS # NoItem

\* C7 (as claimed): calib does not write the store, so after `long` the
\* persisted LIMITS is what it was before.
C7_LongKeepsLimits ==
  (argv.cmd = "long" /\ pc = "exit") => store.LIMITS = atStart.LIMITS

\* C7 (amended): calib itself writes the LimitSet it resolves to under
\* LIMITS, as its last step, whoever called it: until calib has completed
\* the store is as the process found it, and from then on (for `long`: at its
\* exit) LIMITS holds the computed LimitSet and LEVEL is untouched.
C7_CalibPersists ==
  /\ limits = <<>> => store = atStart
  /\ limits # <<>> =>
       store = [atStart EXCEPT !.LIMITS = Stringify(JsArray(limits))]

\* a completed `long` (100 runs) changed the persisted LIMITS
C7_Witness ==
  /\ argv.cmd = "long"
  /\ pc = "exit"
  /\ Len(samples[4]) = LongRuns
  /\ store.LIMITS # atStart.LIMITS
  /\ Parse(store.LIMITS).v = limits

\* the setChannels body colour sends for the limits L, for some fractions
ScaledFrom(L, len, body) ==
  \/ /\ len = 4
     /\ \E k \in Fractions : body = [c \in DOMAIN L |-> scale(k, L[c])]
  \/ /\ len = 7
     /\ \E r \in Fractions, g \in Fractions, b \in Fractions, w \in Fractions :
          body = <<scale(r, L[1]), scale(g, L[2]), scale(b, L[3]), scale(w, L[4])>>

\* C8: after a completed `calib` the persisted LIMITS reads back as the
\* LimitSet its 5 runs resolved to; a `colour` that follows loads that same
\* 4-tuple, issues no search request, and scales exactly those limits.
C8_PersistReload ==
  /\ (argv.cmd = "calib" /\ pc = "exit") =>
       /\ n = CalibRuns
       /\ IsLimitSet(JsArray(limits))
       /\ Parse(store.LIMITS) = JsArray(limits)
  /\ (argv.cmd = "colour" /\ prevCalib # JsUndefined) =>
       /\ nSearch = 0
       /\ pc # "main" => lim = prevCalib
       /\ req.from = "colour" => ScaledFrom(prevCalib.v, argv.len, req.body)

\* `colour 0.5` right after a `calib` that found (100,150,200,50)
C8_Witness ==
  /\ argv.cmd = "colour"
  /\ prevCalib = JsArray(<<100, 150, 200, 50>>)
  /\ pc = "exit"
  /\ req.body = <<50, 75, 100, 25>>
  /\ devChans = <<50, 75, 100, 25>>

\* `colour` has loaded lim and is past its if (!lim)
ColourLoaded ==
  /\ argv.cmd = "colour"
  /\ pc \notin {"start", "main", "aborted"}
  /\ pc \in {"colour.init", "initLevels", "colour.apply", "exit"}
       \/ req.from \in {"initLevels", "colour"}

\* C9 (as claimed): when the persisted limits are missing or malformed (not a
\* 4-tuple of integers in 0..255), colour runs a fresh calibration and uses
\* its LimitSet, not the stored value.
C9_MalformedFallsBack ==
  (ColourLoaded /\ ~ IsLimitSet(Parse(atStart.LIMITS))) =>
    /\ nSearch > 0
    /\ lim = JsArray(limits)

\* C9 (amended): colour falls back to a fresh 5-run calibration, and uses the
\* LimitSet it resolves to, exactly when the persisted LIMITS is absent or a
\* falsy value; any other stored value is used as stored, without a check,
\* also when it is no LimitSet.
C9_FallbackWhenFalsy ==
  ColourLoaded =>
    IF Truthy(Parse(atStart.LIMITS))
    THEN /\ lim = Parse(atStart.LIMITS)
         /\ nSearch = 0
         /\ limits = <<>>
    ELSE /\ lim = JsArray(limits)
         /\ IsLimitSet(lim)
         /\ n = CalibRuns
         /\ nSearch > 0

\* colour found no LIMITS, calibrated, and applied the fresh limits
C9_Witness ==
  /\ argv.cmd = "colour"
  /\ pc = "exit"
  /\ atStart.LIMITS = NoItem
  /\ req.from = "colour"
  /\ lim = JsArray(limits)
  /\ nSearch > 0

\* C10: in `colour` and `white`, initLevels runs exactly once, and its
\* setLevel is the last setLevel before the setChannels that applies the
\* colour, also after a fallback calibration: the level in effect then is
\* the persisted one (or 255), never the 0 that ended the calibration.
C10_LevelInitOnce ==
  /\ req.from \in {"colour", "white"} =>
       /\ nInit = 1
       /\ lastLevel = setLevel(levelOrDefault(Parse(store.LEVEL)), "initLevels")
       /\ lastLevel.body[1] # OffLevel
       /\ devLevel = lastLevel.body[1]
  /\ (argv.cmd \in {"colour", "white"} /\ pc = "exit") => nInit = 1

\* colour calibrated first (setLevel 255, then 0) and applied at level 128
C10_Witness ==
  /\ argv.cmd = "colour"
  /\ req.from = "colour"
  /\ nLevel = 3
  /\ nSearch > 0
  /\ devLevel = 128
  /\ pc = "exit"

\* C11: `off` issues exactly one request, setChannels([0,0,0,0]); it issues
\* no setLevel and does not read the persisted LEVEL (no initLevels) before it.
C11_OffOnly ==
  argv.cmd = "off" =>
    /\ nLevel = 0
    /\ nInit = 0
    /\ level = JsUndefined
    /\ nReq <= 1
    /\ nReq = 1 => req = setChannels(<<0, 0, 0, 0>>, "off")
    /\ pc = "exit" => nReq = 1 /\ devChans = <<0, 0, 0, 0>>

\* `off` completed although a LEVEL of 128 is persisted
C11_Witness ==
  /\ argv.cmd = "off"
  /\ pc = "exit"
  /\ store.LEVEL = Stringify(JsNumber(128))
  /\ devChans = <<0, 0, 0, 0>>
  /\ devLevel = -1

\* v = floor(f * x) for the fraction f = <<numerator, denominator>>
IsFloorOf(v, f, x) ==
  /\ v * f[2] <= f[1] * x
  /\ f[1] * x < (v + 1) * f[2]

\* C12: the setChannels of `colour` carries, on each channel c, the value
\* floor(f_c * L[c]), L being the limits in use and f_c the one fraction k
\* (one argument) or the c-th of the four fractions; limits (228,214,185,184)
\* and k = 0.5 give (114,107,92,92).
C12_FloorScaling ==
  req.from = "colour" =>
    /\ argv.len \in {4, 7}
    /\ Len(fracs) = argv.len - 3
    /\ DOMAIN req.body = DOMAIN lim.v
    /\ \A c \in DOMAIN lim.v :
         IsFloorOf(req.body[c], fracs[IF argv.len = 4 THEN 1 ELSE c], lim.v[c])
    /\ (lim.v = <<228, 214, 185, 184>> /\ fracs = <<<<1, 2>>>>) =>
         req.body = <<114, 107, 92, 92>>

\* `colour 0.5` with the limits (228,214,185,184) sent (114,107,92,92)
C12_Witness ==
  /\ req.from = "colour"
  /\ argv.len = 4
  /\ fracs = <<<<1, 2>>>>
  /\ lim = JsArray(<<228, 214, 185, 184>>)
  /\ req.body = <<114, 107, 92, 92>>
  /\ devChans = <<114, 107, 92, 92>>

\* the fraction f is in [0, 1]
InUnit(f) ==
  0 <= f[1] /\ f[1] <= f[2]

\* the fraction f is at most the fraction g
FracLeq(f, g) ==
  f[1] * g[2] <= g[1] * f[2]

\* C13: with a LimitSet L (entries in 0..255) and fractions in [0, 1], each
\* code `colour` sends is an integer v with 0 <= v <= L[c]; and a smaller
\* fraction never gives a larger code than a larger fraction on any channel.
C13_SafeScaling ==
  (req.from = "colour" /\ IsLimitSet(lim) /\ \A k \in DOMAIN fracs : InUnit(fracs[k])) =>
    \A c \in 1 .. 4 :
      LET f == fracs[IF argv.len = 4 THEN 1 ELSE c]
      IN  /\ req.body[c] \in 0 .. lim.v[c]
          /\ \A g \in Fractions :
               /\ FracLeq(g, f) => scale(g, lim.v[c]) <= req.body[c]
               /\ FracLeq(f, g) => req.body[c] <= scale(g, lim.v[c])

\* four different fractions in [0, 1] applied to freshly calibrated limits
C13_Witness ==
  /\ req.from = "colour"
  /\ argv.len = 7
  /\ fracs = <<<<1, 1>>, <<1, 2>>, <<1, 4>>, <<0, 1>>>>
  /\ lim = JsArray(<<100, 150, 200, 50>>)
  /\ req.body = <<100, 75, 50, 0>>
  /\ pc = "exit"

\* C14: for every channel and every 0 <= lo <= hi <= 255, findLimit(c, lo, hi)
\* ends (it resolves, or a failed device call rejects it) whatever the limit
\* signal answers, monotonic or not, as long as every device call returns:
\* hi - lo strictly decreases at each step, the range stays inside the one
\* given, and the result is a value in lo..hi.
C14_Terminates ==
  /\ [](/\ span[1] <= lo /\ lo <= hi /\ hi <= span[2]
        /\ pc = "done" => found \in span[1] .. span[2])
  /\ [][(pc = "findLimit.rec" /\ pc' = "findLimit") =>
          (hi' - lo' < hi - lo /\ hi' - lo' >= 1)]_vars
  /\ <>(pc \in {"done", "aborted"})

\* findLimit(c, 3, 200) resolved to 150 against a signal that tripped last
C14_Witness ==
  /\ pc = "done"
  /\ ~ monotone
  /\ span = <<3, 200>>
  /\ found = 150
  /\ limit

\* C15 as stated: one findLimit(c, 0, 255) search issues at most 8 device
\* requests, a setChannels write and a getLimitSignal read counting one each.
C15_EightRoundTrips ==
  span = <<SearchLo, SearchHi>> => nReq <= 8

\* C15: one findLimit(c, 0, 255) search takes at most 8 steps, and a step is a
\* setChannels write followed by a getLimitSignal read: at most 16 device
\* requests, the odd ones writes and the even ones reads; a search that
\* resolves has issued 14 or 16 of them.
C15_SixteenRoundTrips ==
  span = <<SearchLo, SearchHi>> =>
    /\ nReq <= 16
    /\ nReq = nSearch
    /\ nReq > 0 => (req.url = "/ctrl") = (nReq % 2 = 1)
    /\ nReq > 0 => (req.url = "/limit") = (nReq % 2 = 0)
    /\ pc = "done" => nReq \in {14, 16}

\* a search of 0..255 that resolved after 8 writes and 8 reads
C15_Witness ==
  /\ span = <<SearchLo, SearchHi>>
  /\ pc = "done"
  /\ nReq = 16
  /\ req.url = "/limit"

\* C16: device access is sequential in every command: at most one request is
\* outstanding, and it is outstanding exactly while the script awaits it; after
\* a successful setLevel or setChannels the script sits in the 5 ms delay and
\* issues nothing until the timer has fired; so a getLimitSignal read is issued
\* only when no write is settling, and it observes the channel values of the
\* search step's write.
C16_Sequential ==
  /\ [](/\ inflight \in {0, 1}
        /\ (inflight = 1) = (pc = "await")
        /\ settling = (pc = "delay")
        /\ (pc = "await" /\ req.url = "/limit") =>
             (~ settling /\ devChans = channelValues(req.ch, mid)))
  /\ [][nReq' > nReq => (nReq' = nReq + 1 /\ inflight = 0 /\ ~ settling)]_vars
  /\ [][(pc = "delay" /\ pc' # "delay") => (~ settling' /\ nReq' = nReq)]_vars
  /\ [][(pc = "await" /\ pc' \notin {"await", "aborted"} /\ req.url # "/limit") =>
          (pc' = "delay" /\ settling')]_vars

\* the fallback calibration of a colour command awaits a read of channel 2,
\* issued after the write of the step has settled
C16_Witness ==
  /\ argv.cmd = "colour"
  /\ pc = "await"
  /\ req = getLimitSignal(2, "findLimit")
  /\ inflight = 1
  /\ ~ settling
  /\ devChans = channelValues(2, mid)
  /\ nLevel = 1

\* the channel a findLimit write drives: the one with a nonzero value
WriteChannel(r) ==
  CHOOSE c \in Channels : r.body = channelValues(c, r.body[c + 1])

\* C17: within each calibration run the searches go in the order 0, 1, 2, 3,
\* each one finished before the next starts (the channel written is the number
\* of searches of this run that have resolved); every step is one setChannels
\* write of channel c, with the other channels at 0, followed at once by one
\* getLimitSignal read of the same c; a write follows setLevel(255) or a read,
\* never a write, a read follows a write, never a read, and getLimits returns
\* four results.
C17_FixedPattern ==
  /\ [][nReq' = nReq + 1 =>
          /\ req'.url = "/ctrl" =>
               /\ req'.from = "findLimit"
               /\ req = setLevel(FullLevel, "calib") \/ req.url = "/limit"
               /\ req.url = "/limit" => req.ch \in {Len(acc), (Len(acc) + 3) % 4}
               /\ WriteChannel(req') = Len(acc)
               /\ idx = Len(acc)
               /\ req'.body[idx + 1] = mid' /\ mid' >= 1
          /\ req'.url = "/limit" =>
               /\ req.url = "/ctrl"
               /\ req'.ch = WriteChannel(req)
               /\ req'.ch = idx
               /\ idx = Len(acc)
          /\ req'.url = "/level" =>
               req = NoReq \/ (req.url = "/limit" /\ req.ch = 3)]_vars
  /\ [](pc = "calib.push" => Len(acc) = 4)

\* in the second run of a calibration the read of channel 3 is pending, the
\* searches of channels 0, 1 and 2 of this run having resolved
C17_Witness ==
  /\ i = 1
  /\ pc = "await"
  /\ req = getLimitSignal(3, "findLimit")
  /\ idx = 3
  /\ Len(acc) = 3
  /\ devChans = channelValues(3, mid)

\* C18: the setLevel of initLevels carries the persisted LEVEL when that is a
\* nonzero number, and 255 when no LEVEL is persisted or the persisted LEVEL
\* is 0; it never carries 0.
C18_LevelOrDefault ==
  req.from = "initLevels" =>
    /\ req.url = "/level"
    /\ store[levelKey] = NoItem => req.body = <<DefaultLevel>>
    /\ store[levelKey] = Stringify(JsNumber(0)) => req.body = <<DefaultLevel>>
    /\ \A L \in 1 .. 255 :
         store[levelKey] = Stringify(JsNumber(L)) => req.body = <<L>>
    /\ req.body # <<0>>
    /\ level = Parse(store[levelKey])

\* white with a persisted LEVEL of 0: the device was set to level 255
C18_Witness ==
  /\ argv.cmd = "white"
  /\ store[levelKey] = Stringify(JsNumber(0))
  /\ req = setLevel(DefaultLevel, "initLevels")
  /\ level = JsNumber(0)
  /\ devLevel = DefaultLevel
  /\ pc = "delay"

\* C19: no step of any command (long, calib, colour with or without the
\* fallback calibration, white, off) changes the persisted LEVEL: from one
\* state to the next, and so over any sequence of processes, the item under
\* LEVEL stays what it was before the first command.
C19_LevelKept ==
  /\ [][store'[levelKey] = store[levelKey]]_vars
  /\ [](store[levelKey] = atStart[levelKey] /\ store[levelKey] \in StoredLevels)

\* a colour command has ended that followed a completed calib command: LIMITS
\* was rewritten by the calibration, LEVEL is the 128 it was before
C19_Witness ==
  /\ prevCalib # JsUndefined
  /\ argv.cmd = "colour"
  /\ pc = "exit"
  /\ nInit = 1
  /\ lim = prevCalib
  /\ store[limitsKey] = Stringify(prevCalib)
  /\ store[levelKey] = Stringify(JsNumber(128))
  /\ devLevel = 128

\* C20: findLimit(c, 0, 255) drives the channel only to values in 1..254,
\* never to 0 or 255, and resolves to a value in 0..254: 254 when the signal
\* fires at no value, 0 when it fires at every value driven.
C20_InteriorProbes ==
  span = <<SearchLo, SearchHi>> =>
    /\ (nReq > 0 /\ req.url = "/ctrl") =>
         (req.body[idx + 1] \in 1 .. 254 /\ req.body = channelValues(idx, mid))
    /\ pc \in {"findLimit.read", "findLimit.rec"} => mid \in 1 .. 254
    /\ pc = "done" =>
         /\ found \in 0 .. 254
         /\ trip[idx + 1] = 255 => found = 254
         /\ trip[idx + 1] \in {-1, 0} => found = 0

\* the search of a channel whose signal never fires resolved to 254, its last
\* write having driven 254
C20_Witness ==
  /\ span = <<SearchLo, SearchHi>>
  /\ pc = "done"
  /\ trip[idx + 1] = 255
  /\ found = 254
  /\ devChans = channelValues(idx, 254)
  /\ ~ limit

====
